---------------------------- MODULE Spec2Model ----------------------------
(***************************************************************************)
(* A model of src/color.rs of xcolor: the ARGB colour value and its        *)
(* operations, the conversion to HSL, the packing into a u32 and the       *)
(* decoding of a window's image reply into colours.                        *)
(*                                                                         *)
(* The arithmetic of color.rs is IEEE-754 binary32 (f32).  It is modelled  *)
(* bit-exactly: a finite f32 is a signed 24-bit significand m and an       *)
(* exponent e, its value being m * 2^e, and every operation rounds to      *)
(* nearest, ties to even, as the hardware does.  All intermediate integers *)
(* stay below 2^31.  What is left out of the f32 model, because no call of *)
(* color.rs on 8-bit channels and the amounts used here reaches it:        *)
(* infinities, subnormals, exponent overflow and the sign of zero.         *)
(***************************************************************************)
EXTENDS Integers, Sequences, FiniteSets

VARIABLES
    self,     \* the ARGB value the method is called on
    op,       \* the operation that has been applied ("init" before any)
    other,    \* the ARGB argument of distance / interpolate
    amount,   \* the f32 argument of interpolate / lighten / darken
    reply,    \* the GetImage reply handed to window_rect
    result    \* what the operation returned

vars == <<self, op, other, amount, reply, result>>

---------------------------------------------------------------------------
(* binary32 arithmetic *)

Abs(n) == IF n < 0 THEN -n ELSE n

Sgn(n) == IF n < 0 THEN -1 ELSE IF n > 0 THEN 1 ELSE 0

TwoP(k) == 2^k

\* the number of significant bits of n >= 0
RECURSIVE BitLen(_)
BitLen(n) == IF n = 0 THEN 0 ELSE 1 + BitLen(n \div 2)

\* the f32 significand has 24 bits (23 stored and the hidden one)
MantBits == 24

NaN == [nan |-> TRUE, m |-> 0, e |-> 0]

Fin(m, e) == [nan |-> FALSE, m |-> m, e |-> e]

Zero == Fin(0, 0)

\* The f32 nearest to sign * (mag + f) * 2^e, where mag >= 0 is an integer
\* and 0 < f < 1 if sticky, f = 0 if not: round to nearest, ties to even.
\* A sticky fraction only comes with a mag of more than MantBits + 1 bits.
RoundF32(sign, mag, e, sticky) ==
    LET len == BitLen(mag) IN
    IF mag = 0 THEN Zero
    ELSE IF len <= MantBits
    THEN Fin(sign * mag * TwoP(MantBits - len), e - (MantBits - len))
    ELSE LET k    == len - MantBits
             q    == mag \div TwoP(k)
             rem  == mag % TwoP(k)
             half == TwoP(k - 1)
             up   == \/ rem > half
                     \/ rem = half /\ (sticky \/ q % 2 = 1)
             q1   == IF up THEN q + 1 ELSE q
         IN  IF q1 = TwoP(MantBits)
             THEN Fin(sign * TwoP(MantBits - 1), e + k + 1)
             ELSE Fin(sign * q1, e + k)

\* f32::from(u8), and the integer literals of the source: exact
F32FromInt(n) == RoundF32(Sgn(n), Abs(n), 0, FALSE)

F32Neg(x) == IF x.nan THEN NaN ELSE Fin(-x.m, x.e)

\* guard bits kept below the larger operand of a sum
GuardBits == 6

\* x + y
F32Add(x, y) ==
    IF x.nan \/ y.nan THEN NaN
    ELSE IF x.m = 0 THEN y
    ELSE IF y.m = 0 THEN x
    ELSE LET hi == IF x.e >= y.e THEN x ELSE y
             lo == IF x.e >= y.e THEN y ELSE x
             d  == hi.e - lo.e
             H  == Abs(hi.m) * TwoP(GuardBits)
         IN  IF d <= GuardBits
             THEN LET t == hi.m * TwoP(GuardBits) + lo.m * TwoP(GuardBits - d)
                  IN  RoundF32(Sgn(t), Abs(t), hi.e - GuardBits, FALSE)
             ELSE LET sh == d - GuardBits
                      L  == IF sh > MantBits THEN 0 ELSE Abs(lo.m) \div TwoP(sh)
                      st == IF sh > MantBits THEN TRUE
                            ELSE Abs(lo.m) % TwoP(sh) # 0
                      mag == IF Sgn(hi.m) = Sgn(lo.m) THEN H + L
                             ELSE IF st THEN H - L - 1 ELSE H - L
                  IN  RoundF32(Sgn(hi.m), mag, hi.e - GuardBits, st)

\* x - y
F32Sub(x, y) == F32Add(x, F32Neg(y))

\* half the significand's width: the limbs of a product
LimbBits == 12

\* x * y: the 48-bit product of the significands from four limb products
F32Mul(x, y) ==
    IF x.nan \/ y.nan THEN NaN
    ELSE IF x.m = 0 \/ y.m = 0 THEN Zero
    ELSE LET B    == TwoP(LimbBits)
             a    == Abs(x.m)
             b    == Abs(y.m)
             a1   == a \div B
             a0   == a % B
             b1   == b \div B
             b0   == b % B
             low  == a0 * b0
             mid  == a1 * b0 + a0 * b1 + low \div B
             d0   == low % B
             d1   == mid % B
             top  == a1 * b1 + mid \div B
             \* the product is top * 2^24 + d1 * 2^12 + d0
             rest == d1 * B + d0
             cut  == MantBits - GuardBits
             mag  == top * TwoP(GuardBits) + rest \div TwoP(cut)
             st   == rest % TwoP(cut) # 0
         IN  RoundF32(Sgn(x.m) * Sgn(y.m), mag, x.e + y.e + cut, st)

\* quotient bits computed beyond the leading one
QuotBits == 26

\* n more bits of the long division of r (< d) by d, appended to q
RECURSIVE DivSteps(_, _, _, _)
DivSteps(q, r, d, n) ==
    IF n = 0 THEN <<q, r>>
    ELSE IF 2 * r >= d THEN DivSteps(2 * q + 1, 2 * r - d, d, n - 1)
    ELSE DivSteps(2 * q, 2 * r, d, n - 1)

\* x / y.  0.0 / 0.0 is NaN; a non-zero x over zero (an infinity) is outside
\* the model: no division of color.rs has a zero divisor then.
F32Div(x, y) ==
    IF x.nan \/ y.nan THEN NaN
    ELSE IF y.m = 0
    THEN IF x.m = 0 THEN NaN ELSE CHOOSE inf \in {} : TRUE
    ELSE IF x.m = 0 THEN Zero
    ELSE LET a  == Abs(x.m)
             b  == Abs(y.m)
             qr == DivSteps(a \div b, a % b, b, QuotBits)
         IN  RoundF32(Sgn(x.m) * Sgn(y.m), qr[1], x.e - y.e - QuotBits,
                      qr[2] # 0)

\* the integer square root of n, two bits at a time from pair i down:
\* <<root, remainder>>
RECURSIVE SqrtSteps(_, _, _, _)
SqrtSteps(root, rem, n, i) ==
    IF i < 0 THEN <<root, rem>>
    ELSE LET r4    == 4 * rem + ((n \div TwoP(2 * i)) % 4)
             trial == 4 * root + 1
         IN  IF r4 >= trial
             THEN SqrtSteps(2 * root + 1, r4 - trial, n, i - 1)
             ELSE SqrtSteps(2 * root, r4, n, i - 1)

\* fractional bits of the root computed before rounding
RootBits == 14

\* n more bits of a square root below the binary point
RECURSIVE SqrtFrac(_, _, _)
SqrtFrac(root, rem, n) ==
    IF n = 0 THEN <<root, rem>>
    ELSE LET r4    == 4 * rem
             trial == 4 * root + 1
         IN  IF r4 >= trial
             THEN SqrtFrac(2 * root + 1, r4 - trial, n - 1)
             ELSE SqrtFrac(2 * root, r4, n - 1)

\* f32::sqrt, correctly rounded; NaN for a negative argument
F32Sqrt(x) ==
    IF x.nan \/ x.m < 0 THEN NaN
    ELSE IF x.m = 0 THEN Zero
    ELSE LET odd == x.e % 2 = 1
             n   == IF odd THEN 2 * x.m ELSE x.m
             e2  == IF odd THEN x.e - 1 ELSE x.e
             ip  == SqrtSteps(0, 0, n, MantBits \div 2)
             fp  == SqrtFrac(ip[1], ip[2], RootBits)
         IN  RoundF32(1, fp[1], e2 \div 2 - RootBits, fp[2] # 0)

\* x < y, false when either is NaN
F32Lt(x, y) ==
    /\ ~x.nan
    /\ ~y.nan
    /\ LET sx == Sgn(x.m)
           sy == Sgn(y.m)
       IN  IF sx # sy THEN sx < sy
           ELSE IF sx = 0 THEN FALSE
           ELSE IF sx > 0 THEN x.e < y.e \/ (x.e = y.e /\ x.m < y.m)
           ELSE x.e > y.e \/ (x.e = y.e /\ x.m < y.m)

F32Gt(x, y) == F32Lt(y, x)

\* x == y: a NaN equals nothing; the representation of a finite value is
\* unique
F32Eq(x, y) == ~x.nan /\ ~y.nan /\ x = y

F32Ne(x, y) == ~F32Eq(x, y)

\* f32::max and f32::min: a NaN operand is ignored
F32Max(x, y) == IF x.nan THEN y ELSE IF y.nan THEN x
                ELSE IF F32Lt(x, y) THEN y ELSE x

F32Min(x, y) == IF x.nan THEN y ELSE IF y.nan THEN x
                ELSE IF F32Lt(y, x) THEN y ELSE x

\* |x| as <<n, r, d>>: the integer part n and the fraction r / d, for a
\* finite x with x.e < 0; below one half only r / d < 1/2 is kept
IntPart(x) ==
    IF -x.e > MantBits THEN <<0, 1, 4>>
    ELSE <<Abs(x.m) \div TwoP(-x.e), Abs(x.m) % TwoP(-x.e), TwoP(-x.e)>>

\* f32::round: to the nearest integer, halves away from zero
F32Round(x) ==
    IF x.nan THEN NaN
    ELSE IF x.e >= 0 THEN x
    ELSE LET p == IntPart(x)
             n == IF 2 * p[2] >= p[3] THEN p[1] + 1 ELSE p[1]
         IN  F32FromInt(Sgn(x.m) * n)

\* f32::ceil
F32Ceil(x) ==
    IF x.nan THEN NaN
    ELSE IF x.e >= 0 THEN x
    ELSE LET p == IntPart(x)
             n == IF x.m > 0 /\ p[2] # 0 THEN p[1] + 1 ELSE p[1]
         IN  F32FromInt(Sgn(x.m) * n)

U8Max == 255

\* `as u8`: truncates toward zero and saturates; NaN gives 0
F32AsU8(x) ==
    IF x.nan \/ x.m <= 0 THEN 0
    ELSE IF x.e > 0 THEN U8Max
    ELSE LET n == IntPart(x)[1]
         IN  IF n > U8Max THEN U8Max ELSE n

---------------------------------------------------------------------------
(* ARGB *)

new(a, r, g, b) == [a |-> a, r |-> r, g |-> g, b |-> b]

TRANSPARENT == new(0, 0, 0, 0)

BLACK == new(255, 0, 0, 0)

WHITE == new(255, 255, 255, 255)

\* (n >> 4) == (n & 0xf)
compact(n) == (n \div 16) = (n % 16)

\* the blue channel is not looked at
is_compactable_rg(c) == compact(c.r) /\ compact(c.g)

is_compactable(c) == compact(c.r) /\ compact(c.g) /\ compact(c.b)

\* f32::powi(2)
powi2(x) == F32Mul(x, x)

\* the blue channel is left out of the sum
distance_rg(c, o) ==
    F32Sqrt(F32Add(
        powi2(F32Sub(F32FromInt(o.r), F32FromInt(c.r))),
        powi2(F32Sub(F32FromInt(o.g), F32FromInt(c.g)))))

distance(c, o) ==
    F32Sqrt(F32Add(F32Add(
        powi2(F32Sub(F32FromInt(o.r), F32FromInt(c.r))),
        powi2(F32Sub(F32FromInt(o.g), F32FromInt(c.g)))),
        powi2(F32Sub(F32FromInt(o.b), F32FromInt(c.b)))))

is_dark(c) == F32Lt(distance(c, BLACK), distance(c, WHITE))

\* the two weights are exchanged
lerp_swapped(a, b, x) ==
    F32AsU8(F32Ceil(F32Add(
        F32Mul(x, F32FromInt(a)),
        F32Mul(F32Sub(F32FromInt(1), x), F32FromInt(b)))))

lerp(a, b, x) ==
    F32AsU8(F32Ceil(F32Add(
        F32Mul(F32Sub(F32FromInt(1), x), F32FromInt(a)),
        F32Mul(x, F32FromInt(b)))))

\* alpha is taken from the other colour
interpolate_alpha(c, o, x) ==
    [a |-> o.a,
     r |-> lerp(c.r, o.r, x),
     g |-> lerp(c.g, o.g, x),
     b |-> lerp(c.b, o.b, x)]

interpolate(c, o, x) ==
    [a |-> c.a,
     r |-> lerp(c.r, o.r, x),
     g |-> lerp(c.g, o.g, x),
     b |-> lerp(c.b, o.b, x)]

lighten(c, x) == interpolate(c, WHITE, x)

darken(c, x) == interpolate(c, BLACK, x)

---------------------------------------------------------------------------
(* u32: the 32 bits, bit 0 the least significant *)

U32Bits == 32

U32Idx == 0 .. (U32Bits - 1)

\* u32::from(u8)
U32FromU8(n) == [i \in U32Idx |-> IF i < 8 THEN (n \div TwoP(i)) % 2 ELSE 0]

\* v << k: the bits shifted out at the top are lost
U32Shl(v, k) == [i \in U32Idx |-> IF i >= k THEN v[i - k] ELSE 0]

\* v | w
U32Or(v, w) == [i \in U32Idx |-> IF v[i] = 1 \/ w[i] = 1 THEN 1 ELSE 0]

\* red is shifted by 8 and lands on green
into_u32_overlap(color) ==
    U32Or(U32Or(U32Or(U32Shl(U32FromU8(color.a), 24),
                      U32Shl(U32FromU8(color.r), 8)),
                U32Shl(U32FromU8(color.g), 8)),
          U32FromU8(color.b))

\* impl From<ARGB> for u32
into_u32(color) ==
    U32Or(U32Or(U32Or(U32Shl(U32FromU8(color.a), 24),
                      U32Shl(U32FromU8(color.r), 16)),
                U32Shl(U32FromU8(color.g), 8)),
          U32FromU8(color.b))

---------------------------------------------------------------------------
(* HSL *)

\* the branch compares the unrounded lightness with 50
hsl_s_raw(l, max, min) ==
    LET delta == F32Sub(max, min)
        raw   == F32Mul(F32Div(F32Add(max, min), F32FromInt(2)),
                        F32FromInt(100))
    IN  IF F32Gt(raw, F32FromInt(50))
        THEN F32Mul(F32Div(delta, F32Sub(F32Sub(F32FromInt(2), max), min)),
                    F32FromInt(100))
        ELSE F32Mul(F32Div(delta, F32Add(max, min)), F32FromInt(100))

\* s = if l > 50.0 { .. } else { .. }, before it is rounded
hsl_s(l, max, min) ==
    LET delta == F32Sub(max, min)
    IN  IF F32Gt(l, F32FromInt(50))
        THEN F32Mul(F32Div(delta, F32Sub(F32Sub(F32FromInt(2), max), min)),
                    F32FromInt(100))
        ELSE F32Mul(F32Div(delta, F32Add(max, min)), F32FromInt(100))

\* h of the if / else if chain on max, before it is scaled and rounded
hsl_h(r, g, b, max, min) ==
    LET delta == F32Sub(max, min)
    IN  IF F32Eq(max, r)
        THEN F32Add(F32Div(F32Sub(g, b), delta),
                    IF F32Lt(g, b) THEN F32FromInt(6) ELSE Zero)
        ELSE IF F32Eq(max, g)
        THEN F32Add(F32Div(F32Sub(b, r), delta), F32FromInt(2))
        ELSE IF F32Eq(max, b)
        THEN F32Add(F32Div(F32Sub(r, g), delta), F32FromInt(4))
        ELSE Zero

from_rgb(rgb) ==
    LET r    == F32Div(F32FromInt(rgb.r), F32FromInt(255))
        g    == F32Div(F32FromInt(rgb.g), F32FromInt(255))
        b    == F32Div(F32FromInt(rgb.b), F32FromInt(255))
        seed == F32Div(Zero, Zero)
        max  == F32Max(F32Max(F32Max(seed, r), g), b)
        min  == F32Min(F32Min(F32Min(seed, r), g), b)
        l    == F32Round(F32Mul(F32Div(F32Add(max, min), F32FromInt(2)),
                                F32FromInt(100)))
    IN  IF F32Ne(max, min)
        THEN [h |-> F32Round(F32Mul(hsl_h(r, g, b, max, min),
                                    F32FromInt(60))),
              s |-> F32Round(hsl_s(l, max, min)),
              l |-> l]
        ELSE [h |-> Zero, s |-> Zero, l |-> l]

---------------------------------------------------------------------------
(* window_rect *)

\* what window_rect returns: Err(..), Ok(pixels), or the thread panics
Err(msg) == [kind |-> "err", msg |-> msg, pixels |-> <<>>]

Ok(pixels) == [kind |-> "ok", msg |-> "", pixels |-> pixels]

Panic == [kind |-> "panic", msg |-> "index out of bounds", pixels |-> <<>>]

\* data.chunks(4): the number of chunks, the last one possibly short
NumChunks(data) == (Len(data) + 3) \div 4

\* the i-th chunk of data.chunks(4), i from 1
Chunk(data, i) ==
    SubSeq(data, 4 * (i - 1) + 1,
           IF 4 * i <= Len(data) THEN 4 * i ELSE Len(data))

\* the bytes are read as red, green, blue
pixel_rgb(chunk) == new(255, chunk[1], chunk[2], chunk[3])

\* ARGB::new(0xff, chunk[2], chunk[1], chunk[0])
pixel(chunk) == new(255, chunk[3], chunk[2], chunk[1])

\* the depth of the reply is not looked at
window_rect_any_depth(rep) ==
    IF rep.err THEN Err("reply")
    ELSE IF \E i \in 1 .. NumChunks(rep.data) : Len(Chunk(rep.data, i)) < 3
    THEN Panic
    ELSE Ok([i \in 1 .. NumChunks(rep.data) |-> pixel(Chunk(rep.data, i))])

\* a reply is the error of get_reply() or an image of a depth with its data
window_rect(rep) ==
    IF rep.err THEN Err("reply")
    ELSE IF rep.depth # 24 THEN Err("Unsupported color depth")
    ELSE IF \E i \in 1 .. NumChunks(rep.data) : Len(Chunk(rep.data, i)) < 3
    THEN Panic
    ELSE Ok([i \in 1 .. NumChunks(rep.data) |-> pixel(Chunk(rep.data, i))])

---------------------------------------------------------------------------
(* the inputs *)

\* the colours of the source: its constants and those of its tests
SourceColors ==
    { TRANSPARENT, BLACK, WHITE,
      new(255, 238, 238, 238), new(255, 247, 247, 247),
      new(255, 255, 247, 255),
      new(255, 255, 0, 0), new(255, 0, 255, 0), new(255, 0, 0, 255),
      new(255, 255, 255, 0), new(255, 14, 115, 123) }

\* two colours beside them: the packed-integer example and a translucent
\* mid grey on the border between dark and light
Anchors == SourceColors \cup { new(255, 18, 52, 86), new(128, 128, 127, 127) }

\* each channel of an input is within Radius of an anchor's
Radius == 1

NearChan(n) == { v \in (n - Radius) .. (n + Radius) : v >= 0 /\ v <= U8Max }

NearInputs ==
    UNION { { new(c.a, r, g, b) :
                r \in NearChan(c.r), g \in NearChan(c.g), b \in NearChan(c.b) } :
            c \in Anchors }

\* and every opaque grey, so that a channel takes each of its 256 values
GreyInputs == { new(U8Max, v, v, v) : v \in 0 .. U8Max }

ColorInputs == NearInputs \cup GreyInputs

\* amounts are the f32 nearest to k / AmountDen, from just below 0 to just
\* above 1, and NaN
AmountDen == 10

AmountOf(k) == F32Div(F32FromInt(k), F32FromInt(AmountDen))

AmountInputs == { AmountOf(k) : k \in (-1) .. (AmountDen + 1) } \cup { NaN }

\* the other colour of a binary operation: one of a few anchors or the
\* colour itself
OtherInputs(c) ==
    { TRANSPARENT, WHITE, new(255, 14, 115, 123), new(128, 128, 127, 127), c }

\* image data: up to MaxData bytes, each one of ByteInputs
MaxData == 8

ByteInputs == { 18, 52, 86 }

DepthInputs == { 8, 24, 30, 32 }

SeqsUpTo(S, n) == UNION { [1 .. k -> S] : k \in 0 .. n }

NoReply == [err |-> TRUE, depth |-> 0, data |-> <<>>]

ReplyInputs ==
    { NoReply } \cup
    { [err |-> FALSE, depth |-> d, data |-> bytes] :
        d \in DepthInputs, bytes \in SeqsUpTo(ByteInputs, MaxData) }

---------------------------------------------------------------------------
(* the colour operations, each applied once to a colour *)

Init ==
    /\ self \in ColorInputs
    /\ op = "init"
    /\ other = TRANSPARENT
    /\ amount = Zero
    /\ reply = NoReply
    /\ result = FALSE

IsCompactable ==
    /\ op = "init"
    /\ op' = "is_compactable"
    /\ result' = is_compactable(self)
    /\ UNCHANGED <<self, other, amount, reply>>

IsDark ==
    /\ op = "init"
    /\ op' = "is_dark"
    /\ result' = is_dark(self)
    /\ UNCHANGED <<self, other, amount, reply>>

IntoU32 ==
    /\ op = "init"
    /\ op' = "into_u32"
    /\ result' = into_u32(self)
    /\ UNCHANGED <<self, other, amount, reply>>

FromRgb ==
    /\ op = "init"
    /\ op' = "from_rgb"
    /\ result' = from_rgb(self)
    /\ UNCHANGED <<self, other, amount, reply>>

Distance ==
    /\ op = "init"
    /\ \E o \in OtherInputs(self) :
        /\ other' = o
        /\ result' = distance(self, o)
    /\ op' = "distance"
    /\ UNCHANGED <<self, amount, reply>>

Interpolate ==
    /\ op = "init"
    /\ \E o \in OtherInputs(self), x \in AmountInputs :
        /\ other' = o
        /\ amount' = x
        /\ result' = interpolate(self, o, x)
    /\ op' = "interpolate"
    /\ UNCHANGED <<self, reply>>

Lighten ==
    /\ op = "init"
    /\ \E x \in AmountInputs :
        /\ amount' = x
        /\ result' = lighten(self, x)
    /\ op' = "lighten"
    /\ UNCHANGED <<self, other, reply>>

Darken ==
    /\ op = "init"
    /\ \E x \in AmountInputs :
        /\ amount' = x
        /\ result' = darken(self, x)
    /\ op' = "darken"
    /\ UNCHANGED <<self, other, reply>>

Next ==
    \/ IsCompactable
    \/ IsDark
    \/ IntoU32
    \/ FromRgb
    \/ Distance
    \/ Interpolate
    \/ Lighten
    \/ Darken

Spec == Init /\ [][Next]_vars

---------------------------------------------------------------------------
(* window_rect applied to a reply *)

InitWindow ==
    /\ self = TRANSPARENT
    /\ op = "init"
    /\ other = TRANSPARENT
    /\ amount = Zero
    /\ reply \in ReplyInputs
    /\ result = FALSE

WindowRect ==
    /\ op = "init"
    /\ op' = "window_rect"
    /\ result' = window_rect(reply)
    /\ UNCHANGED <<self, other, amount, reply>>

NextWindow == WindowRect

SpecWindow == InitWindow /\ [][NextWindow]_vars

---------------------------------------------------------------------------
(* what the properties are stated with *)

One == F32FromInt(1)

\* x <= y
F32Le(x, y) == F32Lt(x, y) \/ F32Eq(x, y)

\* the HSL of three integers
HSLOf(h, s, l) == [h |-> F32FromInt(h), s |-> F32FromInt(s), l |-> F32FromInt(l)]

SameRGB(c, d) == c.r = d.r /\ c.g = d.g /\ c.b = d.b

Min2(a, b) == IF a < b THEN a ELSE b

Max2(a, b) == IF a < b THEN b ELSE a

\* the ceiling of x / y, y > 0
CeilDiv(x, y) == -((-x) \div y)

\* The ceiling of (1 - X) * a + X * b in the reals, X the value of the f32 x,
\* 0 <= X <= 1: a + ceil(m * (b - a) / 2^k) for X = m / 2^k, the product
\* taken on the two limbs of m.
ExactLerp(a, b, x) ==
    IF x.m = 0 THEN a
    ELSE IF x.e >= 0 THEN b
    ELSE LET B  == TwoP(LimbBits)
             k  == -x.e
             T  == (x.m \div B) * (b - a)
             U  == (x.m % B) * (b - a)
         IN  IF k >= LimbBits
             THEN a + CeilDiv(T + CeilDiv(U, B), TwoP(k - LimbBits))
             ELSE a + CeilDiv(T * B + U, TwoP(k))

\* 0 <= amount <= 1
InUnit(x) == F32Le(Zero, x) /\ F32Le(x, One)

\* The conversion as section 4.2 of the specification words it, steps 1 to 6,
\* its maximum and minimum found by comparing.
DocMax(r, g, b) ==
    IF F32Lt(r, g) THEN (IF F32Lt(g, b) THEN b ELSE g)
    ELSE (IF F32Lt(r, b) THEN b ELSE r)

DocMin(r, g, b) ==
    IF F32Lt(g, r) THEN (IF F32Lt(b, g) THEN b ELSE g)
    ELSE (IF F32Lt(b, r) THEN b ELSE r)

DocHSL(c) ==
    LET r     == F32Div(F32FromInt(c.r), F32FromInt(255))
        g     == F32Div(F32FromInt(c.g), F32FromInt(255))
        b     == F32Div(F32FromInt(c.b), F32FromInt(255))
        max   == DocMax(r, g, b)
        min   == DocMin(r, g, b)
        sum   == F32Add(max, min)
        l     == F32Round(F32Mul(F32Div(sum, F32FromInt(2)), F32FromInt(100)))
        delta == F32Sub(max, min)
        frac  == IF F32Lt(F32FromInt(50), l)
                 THEN F32Div(delta, F32Sub(F32Sub(F32FromInt(2), max), min))
                 ELSE F32Div(delta, sum)
        base  == IF max = r
                 THEN F32Add(F32Div(F32Sub(g, b), delta),
                             F32FromInt(IF F32Lt(g, b) THEN 6 ELSE 0))
                 ELSE IF max = g
                 THEN F32Add(F32Div(F32Sub(b, r), delta), F32FromInt(2))
                 ELSE F32Add(F32Div(F32Sub(r, g), delta), F32FromInt(4))
    IN  IF max = min THEN [h |-> Zero, s |-> Zero, l |-> l]
        ELSE [h |-> F32Round(F32Mul(base, F32FromInt(60))),
              s |-> F32Round(F32Mul(frac, F32FromInt(100))),
              l |-> l]

\* the value of the byte k of a u32, byte 0 the lowest
RECURSIVE BitsValue(_, _, _)
BitsValue(v, lo, n) ==
    IF n = 0 THEN 0 ELSE v[lo] + 2 * BitsValue(v, lo + 1, n - 1)

U32Byte(v, k) == BitsValue(v, 8 * k, 8)

SumSq(c, o) ==
    (o.r - c.r) * (o.r - c.r) + (o.g - c.g) * (o.g - c.g)
        + (o.b - c.b) * (o.b - c.b)

---------------------------------------------------------------------------
(* the properties *)

\* C1: HSL::from_rgb returns h in [0,360), 360 excluded, s in [0,100] and
\* l in [0,100], for every colour.
C1_HslInRange ==
    op = "from_rgb" =>
        /\ F32Le(Zero, result.h) /\ F32Lt(result.h, F32FromInt(360))
        /\ F32Le(Zero, result.s) /\ F32Le(result.s, F32FromInt(100))
        /\ F32Le(Zero, result.l) /\ F32Le(result.l, F32FromInt(100))

\* C2, as claimed: interpolate(a, b, 0) == a and interpolate(a, b, 1) == b,
\* == comparing alpha, red, green and blue.
C2_InterpolateEnds ==
    op = "interpolate" =>
        /\ amount = Zero => result = self
        /\ amount = One => result = other

\* C2, amended: interpolate(a, b, 0) == a, and interpolate(a, b, 1) has the
\* red, green and blue of b and the alpha of a, so it is b exactly when the
\* two alphas are equal.
C2_InterpolateEndsKeepAlpha ==
    op = "interpolate" =>
        /\ amount = Zero => result = self
        /\ amount = One =>
            /\ result = new(self.a, other.r, other.g, other.b)
            /\ (result = other) = (self.a = other.a)

C2_Witness ==
    /\ op = "interpolate"
    /\ amount = One
    /\ self.a # other.a
    /\ ~SameRGB(self, other)
    /\ result = new(self.a, other.r, other.g, other.b)

\* C3: window_rect fails with the unsupported-depth error whenever the depth
\* of the reply is not 24, and then decodes no pixel; when the depth is 24
\* it does not return that error.
C3_DepthRejected ==
    (op = "window_rect" /\ ~reply.err) =>
        /\ reply.depth # 24 => result = Err("Unsupported color depth")
        /\ reply.depth = 24 =>
            ~(result.kind = "err" /\ result.msg = "Unsupported color depth")

C3_Witness ==
    /\ op = "window_rect"
    /\ ~reply.err
    /\ reply.depth = 32
    /\ Len(reply.data) = 4
    /\ result.kind = "err"
    /\ result.pixels = <<>>

\* C4: for a reply of depth 24 with 4 * n bytes, window_rect returns exactly
\* n colours in the order of the buffer, the i-th (from 0) being
\* (255, byte[4i+2], byte[4i+1], byte[4i]), byte[4i+3] ignored; four bytes
\* give one colour.
C4_DecodeBGRX ==
    (op = "window_rect" /\ ~reply.err /\ reply.depth = 24
        /\ Len(reply.data) % 4 = 0) =>
        /\ result.kind = "ok"
        /\ Len(result.pixels) = Len(reply.data) \div 4
        /\ \A i \in 0 .. (Len(reply.data) \div 4 - 1) :
            result.pixels[i + 1] =
                new(255, reply.data[4 * i + 3], reply.data[4 * i + 2],
                    reply.data[4 * i + 1])

C4_Witness ==
    /\ op = "window_rect"
    /\ reply.depth = 24
    /\ reply.data = <<86, 52, 18, 52, 18, 18, 86, 86>>
    /\ result = Ok(<<new(255, 18, 52, 86), new(255, 86, 18, 18)>>)

\* C5: for every amount in [0,1], each of R, G, B of interpolate(self, other,
\* amount) is the ceiling of (1 - amount) * self_c + amount * other_c and
\* lies between min(self_c, other_c) and max(self_c, other_c).
C5_LerpExactInRange ==
    (op = "interpolate" /\ InUnit(amount)) =>
        /\ result.r = ExactLerp(self.r, other.r, amount)
        /\ result.g = ExactLerp(self.g, other.g, amount)
        /\ result.b = ExactLerp(self.b, other.b, amount)
        /\ Min2(self.r, other.r) <= result.r
        /\ result.r <= Max2(self.r, other.r)
        /\ Min2(self.g, other.g) <= result.g
        /\ result.g <= Max2(self.g, other.g)
        /\ Min2(self.b, other.b) <= result.b
        /\ result.b <= Max2(self.b, other.b)

\* C6: HSL::from_rgb returns exactly what the documented algorithm gives
\* (l rounded first, the saturation branch on the rounded l against 50, the
\* hue from the first of max==r, max==g, max==b, h and s rounded, h = s = 0
\* for a grey), whatever the alpha, and gives the six reference values.
C6_HslAsDocumented ==
    op = "from_rgb" =>
        /\ result = DocHSL(self)
        /\ \A a \in {0, 128, 255} : from_rgb(new(a, self.r, self.g, self.b)) = result
        /\ (self.r = self.g /\ self.g = self.b) =>
            (result.h = Zero /\ result.s = Zero)
        /\ SameRGB(self, new(0, 255, 255, 255)) => result = HSLOf(0, 0, 100)
        /\ SameRGB(self, new(0, 255, 0, 0)) => result = HSLOf(0, 100, 50)
        /\ SameRGB(self, new(0, 0, 255, 0)) => result = HSLOf(120, 100, 50)
        /\ SameRGB(self, new(0, 0, 0, 255)) => result = HSLOf(240, 100, 50)
        /\ SameRGB(self, new(0, 255, 255, 0)) => result = HSLOf(60, 100, 50)
        /\ SameRGB(self, new(0, 14, 115, 123)) => result = HSLOf(184, 80, 27)

C6_Witness ==
    /\ op = "from_rgb"
    /\ self = new(255, 14, 115, 123)
    /\ result = HSLOf(184, 80, 27)

\* C7: is_compactable is true exactly when each of R, G and B has its high
\* nibble equal to its low nibble, that is, is a multiple of 17; one channel
\* that is not makes it false, and alpha does not count.
C7_CompactableIffNibbles ==
    op = "is_compactable" =>
        result = (self.r % 17 = 0 /\ self.g % 17 = 0 /\ self.b % 17 = 0)

C7_Witness ==
    /\ op = "is_compactable"
    /\ self = new(255, 255, 247, 255)
    /\ result = FALSE

\* C8: interpolate, lighten and darken never change alpha: the result's
\* alpha is that of self for every colour and every amount.
C8_AlphaKept ==
    op \in {"interpolate", "lighten", "darken"} => result.a = self.a

C8_Witness ==
    /\ op = "lighten"
    /\ self.a = 128
    /\ amount = One
    /\ result = new(128, 255, 255, 255)

\* C9: is_dark is true exactly when the colour is nearer, in RGB, to black
\* than to white; the distance is the Euclidean one, symmetric, and neither
\* it nor is_dark depends on an alpha.
C9_DarkIffNearerBlack ==
    /\ op = "is_dark" => result = (SumSq(self, BLACK) < SumSq(self, WHITE))
    /\ op = "distance" =>
        /\ result = distance(other, self)
        /\ result = F32Sqrt(F32FromInt(SumSq(self, other)))

C9_Witness ==
    /\ op = "is_dark"
    /\ self.a = 128
    /\ self.r + self.g + self.b = 382
    /\ result = TRUE

\* C10: a colour converts to the u32 a * 2^24 + r * 2^16 + g * 2^8 + b, each
\* channel in a byte of its own, so that distinct colours give distinct
\* integers; (0xff, 0x12, 0x34, 0x56) gives 0xff123456.
C10_PackedBytes ==
    op = "into_u32" =>
        /\ U32Byte(result, 3) = self.a
        /\ U32Byte(result, 2) = self.r
        /\ U32Byte(result, 1) = self.g
        /\ U32Byte(result, 0) = self.b
        /\ self = new(255, 18, 52, 86) =>
            /\ BitsValue(result, 16, 16) = 65298
            /\ BitsValue(result, 0, 16) = 13398

C10_Witness ==
    /\ op = "into_u32"
    /\ self = new(255, 18, 52, 86)
    /\ BitsValue(result, 16, 16) = 65298
    /\ BitsValue(result, 0, 16) = 13398

===========================================================================
